---- MODULE Spec2Model ----
(***************************************************************************)
(* Bus Booking API (main.py): the document store with its three            *)
(* collections (busroute, trip, booking) and the two request handlers      *)
(* that touch it, search_trips and book_trip.  Every store interaction of  *)
(* a handler is one step, so concurrent requests interleave at exactly     *)
(* the points where the code blocks on the store.                          *)
(***************************************************************************)
EXTENDS Integers, Sequences, FiniteSets, TLC

(* ------------------------------ bounds -------------------------------- *)
\* number of requests that may be in flight at the same time
NumProcs == 2
\* capacity of the first stored trip
Capacity1 == 1
\* capacity of the second stored trip
Capacity2 == 2
\* number of requests the service accepts in one run
MaxRequests == 2

(* ------------------------- program constants --------------------------- *)
\* BookingRequest.seats: Field(..., ge=1, le=10)
GeSeats == 1
LeSeats == 10

Procs == 1..NumProcs

\* seat counts a validated BookingRequest is drawn from: both ends of the
\* admitted range
SeatsInputs == {GeSeats, LeSeats}

(* --------------------------- identifiers ------------------------------- *)
\* Stand-ins for 24-digit hexadecimal strings.  "64A1" is "64a1" written in
\* upper case; "64ff" is well formed but names no document.
HexStrings == {"64a1", "64A1", "64b2", "64ff", "51c1", "51c2"}

\* str.lower() on the strings that occur in the model
Lower(s) ==
    CASE s = "64A1"     -> "64a1"
      [] s = "New York" -> "new york"
      [] s = "Boston"   -> "boston"
      [] s = "BOSTON"   -> "boston"
      [] s = "San Francisco" -> "san francisco"
      [] s = "Los Angeles"   -> "los angeles"
      [] OTHER          -> s

\* bson.ObjectId(s) raises InvalidId unless s is 24 hexadecimal digits
IsValidObjectId(s) == s \in HexStrings

\* bson.ObjectId(s): the 12 bytes the digits denote, whatever their case
ObjectId(s) == [oid |-> Lower(s)]

\* str(ObjectId): the bytes as lower-case hexadecimal digits
Str(o) == o.oid

\* date.isoformat()
IsoFormat(d) ==
    CASE d = "D1" -> "2026-11-06"
      [] d = "D2" -> "2026-11-07"

(* ------------------------------ the store ------------------------------ *)
VARIABLES
    db,         \* the module-level store handle: "configured" or "None"
    busroute,   \* collection "busroute": sequence of route documents
    trip,       \* collection "trip": sequence of trip documents
    booking     \* collection "booking": sequence of booking documents

(* --------------------------- request state ----------------------------- *)
VARIABLES
    pc,         \* the store step each request is about to take
    payload,    \* book_trip: the BookingRequest
    query,      \* search_trips: origin, destination, travel_date
    trip_obj,   \* book_trip: local `trip_obj`
    available,  \* book_trip: local `available` (-1 before it is computed)
    routes,     \* search_trips: local `routes`
    trips,      \* search_trips: the trips the loop has not visited yet
    results,    \* search_trips: local `results`
    response,   \* what the request returned or raised
    raised,     \* TRUE once a store step of the request raised
    steps,      \* the collections the request has read or written, in order
    served      \* number of requests accepted so far

store == <<db, busroute, trip, booking>>
vars == <<db, busroute, trip, booking, pc, payload, query, trip_obj, available,
          routes, trips, results, response, raised, steps, served>>

None == [none |-> TRUE]

(* ----------------------- document store primitives --------------------- *)
\* the documents held by a collection
Docs(coll) == {coll[i] : i \in 1..Len(coll)}

\* find-many: the documents of a collection that satisfy the filter, given
\* as the set of documents it accepts, in the collection's order
FindMany(coll, accepted) == SelectSeq(coll, LAMBDA doc : doc \in accepted)

\* insert-one: the collection with the document appended under a fresh id
InsertOne(coll, fields) ==
    Append(coll, ("_id" :> Len(coll) + 1) @@ fields)

\* the identifier insert-one generates
InsertedId(coll) == Len(coll) + 1

(* --------------------------- pure helpers ------------------------------ *)
Max(a, b) == IF a >= b THEN a ELSE b

\* b.get("seats", 0)
SeatsOf(b) == IF "seats" \in DOMAIN b THEN b.seats ELSE 0

\* sum(int(b.get("seats", 0)) for b in bookings)
RECURSIVE SeatsBooked(_)
SeatsBooked(bookings) ==
    IF bookings = <<>> THEN 0
    ELSE SeatsOf(Head(bookings)) + SeatsBooked(Tail(bookings))

\* trip.get("capacity", 0)
CapacityOf(t) == IF "capacity" \in DOMAIN t THEN t.capacity ELSE 0

\* max(0, int(trip.get("capacity", 0)) - seats_booked)
AvailableSeats(t, bookings) ==
    Max(0, CapacityOf(t) - SeatsBooked(bookings))

\* the admission check with the bound one seat too high
CapacityExceededOffByOne(seats, avail) == seats > avail + 1

\* if payload.seats > available
CapacityExceeded(seats, avail) == seats > avail

\* get_documents("booking", {"trip_id": trip_id})
BookingsOf(trip_id) ==
    FindMany(booking,
             {b \in Docs(booking) : "trip_id" \in DOMAIN b /\ b.trip_id = trip_id})

\* payload.model_dump(): the fields of BookingRequest (email and phone are
\* carried like full_name and left out)
BookingDoc(p) ==
    [trip_id |-> p.trip_id, full_name |-> p.full_name, seats |-> p.seats]

\* a lookup that ignores the identifier
FindOneTripAnyId(oid) == IF trip = <<>> THEN None ELSE Head(trip)

\* db["trip"].find_one({"_id": oid})
FindOneTrip(oid) ==
    LET found == FindMany(trip, {t \in Docs(trip) : t["_id"] = oid})
    IN  IF found = <<>> THEN None ELSE Head(found)

(* ------------------------------ responses ------------------------------ *)
NotConfigured == [code |-> 500, detail |-> "Database not configured"]
StoreFailure  == [code |-> 500, detail |-> "Internal Server Error"]
TripNotFound  == [code |-> 404, detail |-> "Trip not found"]
OnlyAvailable(n) == [code |-> 400, detail |-> "Only {available} seats available", count |-> n]
Confirmed(id) == [code |-> 200, status |-> "confirmed", booking_id |-> id]
TripList(items) == [code |-> 200, trips |-> items]

(* ------------------------------- Init ---------------------------------- *)
Route1 == [_id |-> ObjectId("51c1"), origin |-> "New York",
           destination |-> "Boston", duration_minutes |-> 240]
Route2 == [_id |-> ObjectId("51c2"), origin |-> "San Francisco",
           destination |-> "Los Angeles", duration_minutes |-> 420]
Trip1 == [_id |-> ObjectId("64a1"), route_id |-> "51c1",
          travel_date |-> "2026-11-06", capacity |-> Capacity1]
Trip2 == [_id |-> ObjectId("64b2"), route_id |-> "51c2",
          travel_date |-> "2026-11-06", capacity |-> Capacity2]

\* a booking document written before `seats` was recorded
LegacyBooking == [_id |-> 1, trip_id |-> "64a1", full_name |-> "Ann"]

Idle(p) ==
    /\ pc' = [pc EXCEPT ![p] = "idle"]
    /\ payload' = [payload EXCEPT ![p] = None]
    /\ query' = [query EXCEPT ![p] = None]
    /\ trip_obj' = [trip_obj EXCEPT ![p] = None]
    /\ available' = [available EXCEPT ![p] = -1]
    /\ routes' = [routes EXCEPT ![p] = <<>>]
    /\ trips' = [trips EXCEPT ![p] = <<>>]
    /\ results' = [results EXCEPT ![p] = <<>>]
    /\ response' = [response EXCEPT ![p] = None]
    /\ raised' = [raised EXCEPT ![p] = FALSE]
    /\ steps' = [steps EXCEPT ![p] = <<>>]

Init ==
    /\ db \in {"configured", "None"}
    /\ busroute = IF db = "None" THEN <<>> ELSE <<Route1, Route2>>
    /\ trip = IF db = "None" THEN <<>> ELSE <<Trip1, Trip2>>
    /\ booking \in IF db = "None" THEN {<<>>} ELSE {<<>>, <<LegacyBooking>>}
    /\ pc = [p \in Procs |-> "idle"]
    /\ payload = [p \in Procs |-> None]
    /\ query = [p \in Procs |-> None]
    /\ trip_obj = [p \in Procs |-> None]
    /\ available = [p \in Procs |-> -1]
    /\ routes = [p \in Procs |-> <<>>]
    /\ trips = [p \in Procs |-> <<>>]
    /\ results = [p \in Procs |-> <<>>]
    /\ response = [p \in Procs |-> None]
    /\ raised = [p \in Procs |-> FALSE]
    /\ steps = [p \in Procs |-> <<>>]
    /\ served = 0

\* a request finishes: it returns `resp` or raises it
Finish(p, resp) ==
    /\ pc' = [pc EXCEPT ![p] = "done"]
    /\ response' = [response EXCEPT ![p] = resp]

(* ------------------------------ book_trip ------------------------------ *)
TripIdInputs == {"64a1", "64A1", "64b2", "64ff", "not-an-id"}

BookingRequests ==
    [trip_id : TripIdInputs, full_name : {"Bob"}, seats : SeatsInputs]

\* POST /api/book arrives with a validated payload; `if db is None`
BookTrip(p) ==
    /\ pc[p] = "idle"
    /\ served < MaxRequests
    /\ served' = served + 1
    /\ \E req \in BookingRequests :
        /\ payload' = [payload EXCEPT ![p] = req]
        /\ IF db = "None"
           THEN Finish(p, NotConfigured)
           ELSE /\ pc' = [pc EXCEPT ![p] = "find_one"]
                /\ UNCHANGED response
    /\ UNCHANGED <<store, query, trip_obj, available, routes, trips, results, raised, steps>>

\* trip_obj = db["trip"].find_one({"_id": ObjectId(payload.trip_id)}) inside
\* try/except Exception, then `if not trip_obj: raise 404`
FindTrip(p) ==
    /\ pc[p] = "find_one"
    /\ \/ \* ObjectId() raises InvalidId: no store step is taken
          /\ ~IsValidObjectId(payload[p].trip_id)
          /\ Finish(p, TripNotFound)
          /\ UNCHANGED <<trip_obj, raised, steps>>
       \/ \* the store raises; the except clause turns it into trip_obj = None
          /\ IsValidObjectId(payload[p].trip_id)
          /\ raised' = [raised EXCEPT ![p] = TRUE]
          /\ steps' = [steps EXCEPT ![p] = Append(@, "trip.find_one")]
          /\ Finish(p, TripNotFound)
          /\ UNCHANGED trip_obj
       \/ /\ IsValidObjectId(payload[p].trip_id)
          /\ steps' = [steps EXCEPT ![p] = Append(@, "trip.find_one")]
          /\ LET found == FindOneTrip(ObjectId(payload[p].trip_id))
             IN  /\ trip_obj' = [trip_obj EXCEPT ![p] = found]
                 /\ IF found = None
                    THEN Finish(p, TripNotFound)
                    ELSE /\ pc' = [pc EXCEPT ![p] = "get_documents"]
                         /\ UNCHANGED response
          /\ UNCHANGED raised
    /\ UNCHANGED <<store, payload, query, available, routes, trips, results, served>>

\* bookings = get_documents("booking", {"trip_id": payload.trip_id}), the
\* availability computation and the admission check
CheckAvailability(p) ==
    /\ pc[p] = "get_documents"
    /\ steps' = [steps EXCEPT ![p] = Append(@, "booking.find")]
    /\ \/ /\ raised' = [raised EXCEPT ![p] = TRUE]
          /\ Finish(p, StoreFailure)
          /\ UNCHANGED available
       \/ LET avail == AvailableSeats(trip_obj[p], BookingsOf(payload[p].trip_id))
          IN  /\ available' = [available EXCEPT ![p] = avail]
              /\ IF CapacityExceeded(payload[p].seats, avail)
                 THEN Finish(p, OnlyAvailable(avail))
                 ELSE /\ pc' = [pc EXCEPT ![p] = "create_document"]
                      /\ UNCHANGED response
              /\ UNCHANGED raised
    /\ UNCHANGED <<store, payload, query, trip_obj, routes, trips, results, served>>

\* booking_id = create_document("booking", payload.model_dump())
CreateBooking(p) ==
    /\ pc[p] = "create_document"
    /\ steps' = [steps EXCEPT ![p] = Append(@, "booking.insert")]
    /\ \/ /\ raised' = [raised EXCEPT ![p] = TRUE]
          /\ Finish(p, StoreFailure)
          /\ UNCHANGED booking
       \/ /\ booking' = InsertOne(booking, BookingDoc(payload[p]))
          /\ Finish(p, Confirmed(InsertedId(booking)))
          /\ UNCHANGED raised
    /\ UNCHANGED <<db, busroute, trip, payload, query, trip_obj, available, routes, trips, results, served>>

(* ----------------------------- search_trips ---------------------------- *)
\* re.fullmatch(pattern, s, re.IGNORECASE) for the patterns of the model:
\* ".*" matches every string, a city name matches itself in any case
RegexMatch(pattern, s) ==
    \/ pattern = ".*"
    \/ Lower(pattern) = Lower(s)

\* the filter of get_documents("busroute", ...): both fields match
\* ^{origin}$ and ^{destination}$ with option "i"
RouteMatches(r, q) ==
    /\ RegexMatch(q.origin, r.origin)
    /\ RegexMatch(q.destination, r.destination)

\* route_ids = [str(r["_id"]) for r in routes]
RouteIds(rs) == {Str(rs[i]["_id"]) : i \in 1..Len(rs)}

\* the search without its short-circuit
NoRoutesNever(route_ids) == FALSE

\* if not route_ids
NoRoutes(route_ids) == route_ids = {}

\* the trip filter without the date
TripMatchesAnyDate(t, route_ids, q) == t.route_id \in route_ids

\* the filter of get_documents("trip", ...): route_id $in route_ids and
\* travel_date equal to travel_date.isoformat()
TripMatches(t, route_ids, q) ==
    /\ t.route_id \in route_ids
    /\ t.travel_date = IsoFormat(q.travel_date)

\* serialize_doc: an ObjectId becomes its string, other values are kept
SerializeDoc(doc) ==
    [k \in DOMAIN doc |-> IF k = "_id" THEN Str(doc[k]) ELSE doc[k]]

\* next((r for r in routes if str(r["_id"]) == trip.get("route_id")), None)
RouteOf(t, rs) ==
    LET own == SelectSeq(rs, LAMBDA r : Str(r["_id"]) = t.route_id)
    IN  IF own = <<>> THEN None ELSE Head(own)

\* the loop body of search_trips after the bookings read
Enrich(t, rs, avail) ==
    LET route == RouteOf(t, rs)
        item == ("available_seats" :> avail) @@ SerializeDoc(t)
    IN  IF route # None
        THEN [origin |-> route.origin, destination |-> route.destination,
              duration_minutes |-> route.duration_minutes] @@ item
        ELSE item

SearchQueries ==
    { [origin |-> "new york", destination |-> "BOSTON", travel_date |-> "D1"],
      [origin |-> ".*",       destination |-> ".*",     travel_date |-> "D1"],
      [origin |-> "Paris",    destination |-> "BOSTON", travel_date |-> "D1"],
      [origin |-> "new york", destination |-> "BOSTON", travel_date |-> "D2"] }

\* GET /api/trips/search arrives; `if db is None`
SearchTrips(p) ==
    /\ pc[p] = "idle"
    /\ served < MaxRequests
    /\ served' = served + 1
    /\ \E q \in SearchQueries :
        /\ query' = [query EXCEPT ![p] = q]
        /\ IF db = "None"
           THEN Finish(p, NotConfigured)
           ELSE /\ pc' = [pc EXCEPT ![p] = "find_routes"]
                /\ UNCHANGED response
    /\ UNCHANGED <<store, payload, trip_obj, available, routes, trips, results, raised, steps>>

\* routes = get_documents("busroute", ...) and `if not route_ids`
FindRoutes(p) ==
    /\ pc[p] = "find_routes"
    /\ steps' = [steps EXCEPT ![p] = Append(@, "busroute.find")]
    /\ \/ /\ raised' = [raised EXCEPT ![p] = TRUE]
          /\ Finish(p, StoreFailure)
          /\ UNCHANGED routes
       \/ LET rs == FindMany(busroute,
                           {r \in Docs(busroute) : RouteMatches(r, query[p])})
          IN  /\ routes' = [routes EXCEPT ![p] = rs]
              /\ IF NoRoutes(RouteIds(rs))
                 THEN Finish(p, TripList(<<>>))
                 ELSE /\ pc' = [pc EXCEPT ![p] = "find_trips"]
                      /\ UNCHANGED response
              /\ UNCHANGED raised
    /\ UNCHANGED <<store, payload, query, trip_obj, available, trips, results, served>>

\* trips = get_documents("trip", ...); an empty list skips the loop
FindTrips(p) ==
    /\ pc[p] = "find_trips"
    /\ steps' = [steps EXCEPT ![p] = Append(@, "trip.find_one")]
    /\ \/ /\ raised' = [raised EXCEPT ![p] = TRUE]
          /\ Finish(p, StoreFailure)
          /\ UNCHANGED trips
       \/ LET ts == FindMany(trip,
                      {t \in Docs(trip) :
                          TripMatches(t, RouteIds(routes[p]), query[p])})
          IN  /\ trips' = [trips EXCEPT ![p] = ts]
              /\ IF ts = <<>>
                 THEN Finish(p, TripList(<<>>))
                 ELSE /\ pc' = [pc EXCEPT ![p] = "find_bookings"]
                      /\ UNCHANGED response
              /\ UNCHANGED raised
    /\ UNCHANGED <<store, payload, query, trip_obj, available, routes, results, served>>

\* one iteration of `for trip in trips`: the bookings read, the availability
\* and the enriched item; after the last trip the list is returned
EnrichTrip(p) ==
    /\ pc[p] = "find_bookings"
    /\ steps' = [steps EXCEPT ![p] = Append(@, "booking.find")]
    /\ \/ /\ raised' = [raised EXCEPT ![p] = TRUE]
          /\ Finish(p, StoreFailure)
          /\ UNCHANGED <<trips, results>>
       \/ LET t == Head(trips[p])
              trip_id == Str(t["_id"])
              avail == AvailableSeats(t, BookingsOf(trip_id))
              items == Append(results[p], Enrich(t, routes[p], avail))
          IN  /\ results' = [results EXCEPT ![p] = items]
              /\ trips' = [trips EXCEPT ![p] = Tail(@)]
              /\ IF Tail(trips[p]) = <<>>
                 THEN Finish(p, TripList(items))
                 ELSE UNCHANGED <<pc, response>>
              /\ UNCHANGED raised
    /\ UNCHANGED <<store, payload, query, trip_obj, available, routes, served>>

\* the response has been sent; the worker takes the next request
Return(p) ==
    /\ pc[p] = "done"
    /\ Idle(p)
    /\ UNCHANGED <<store, served>>

Step(p) ==
    \/ BookTrip(p)
    \/ FindTrip(p)
    \/ CheckAvailability(p)
    \/ CreateBooking(p)
    \/ SearchTrips(p)
    \/ FindRoutes(p)
    \/ FindTrips(p)
    \/ EnrichTrip(p)
    \/ Return(p)

\* requests run concurrently and interleave at their store steps
Next == \E p \in Procs : Step(p)

Spec == Init /\ [][Next]_vars

\* requests run one at a time: a request is accepted only when no other
\* request is in progress
SerialNext ==
    \E p \in Procs : (\A q \in Procs \ {p} : pc[q] = "idle") /\ Step(p)

SerialSpec == Init /\ [][SerialNext]_vars
(* ------------------------- vocabulary of the claims -------------------- *)
\* the request of p is a book_trip call / a search_trips call
IsBooking(p) == payload[p] # None
IsSearch(p) == query[p] # None

\* the identifier names a stored trip
TripExists(id) ==
    /\ IsValidObjectId(id)
    /\ \E i \in 1..Len(trip) : trip[i]["_id"] = ObjectId(id)

\* the stored trip an identifier names
TripNamed(id) ==
    trip[CHOOSE i \in 1..Len(trip) : trip[i]["_id"] = ObjectId(id)]

\* the booking documents that reference trip t: their trip_id names t
TripRefs(t) ==
    SelectSeq(booking, LAMBDA b : /\ "trip_id" \in DOMAIN b
                                  /\ IsValidObjectId(b.trip_id)
                                  /\ ObjectId(b.trip_id) = t["_id"])

\* seats booked on trip t
BookedSeats(t) == SeatsBooked(TripRefs(t))

\* max(0, capacity - seats booked on t)
TripAvailability(t) == Max(0, t.capacity - BookedSeats(t))

\* the availability search_trips reports for t in the current store
ReportedAvailability(t) == AvailableSeats(t, BookingsOf(Str(t["_id"])))

NoTripOverBooked ==
    \A i \in 1..Len(trip) : BookedSeats(trip[i]) <= trip[i].capacity

Took(p, step) == \E i \in 1..Len(steps[p]) : steps[p][i] = step

Last(seq) == seq[Len(seq)]

(* -------------------------------- C1 ----------------------------------- *)
\* C1: in every reachable state, for every trip the seats of the bookings
\* that reference it sum to at most the trip's capacity, however the store
\* steps of concurrent book_trip calls interleave.
C1_CapacityInvariant == NoTripOverBooked

(* -------------------------------- C2 ----------------------------------- *)
\* C2: a book_trip call on an existing trip that runs alone and asks for no
\* more seats than the trip's reported availability is admitted, inserts
\* exactly one booking, and the trip's reported availability afterwards is
\* the previous one minus the requested seats.
C2_BookingDecreasesAvailability ==
    [][\A p \in Procs :
        /\ ( /\ pc[p] = "get_documents"
             /\ pc'[p] # "get_documents"
             /\ ~raised'[p]
             /\ payload[p].seats <= ReportedAvailability(TripNamed(payload[p].trip_id)) )
           => pc'[p] = "create_document"
        /\ ( /\ pc[p] = "create_document"
             /\ pc'[p] = "done"
             /\ ~raised'[p]
             /\ payload[p].seats <= ReportedAvailability(TripNamed(payload[p].trip_id)) )
           => /\ response'[p].code = 200
              /\ Len(booking') = Len(booking) + 1
              /\ ReportedAvailability(TripNamed(payload[p].trip_id))'
                   = ReportedAvailability(TripNamed(payload[p].trip_id))
                     - payload[p].seats
      ]_vars

(* -------------------------------- C3 ----------------------------------- *)
\* C3: a book_trip call that asks for more seats than the availability it
\* computed fails with 400, the failure carries that availability, and the
\* call inserts nothing.
C3_CapacityExceeded ==
    /\ [][\A p \in Procs :
            ( /\ pc[p] = "get_documents"
              /\ available'[p] >= 0
              /\ payload[p].seats > available'[p] )
            => /\ pc'[p] = "done"
               /\ response'[p] = OnlyAvailable(available'[p])
               /\ booking' = booking
         ]_vars
    /\ [](\A p \in Procs :
            (pc[p] = "done" /\ response[p].code = 400)
            => /\ payload[p].seats > available[p]
               /\ response[p].count = available[p]
               /\ ~Took(p, "booking.insert"))

C3_Witness ==
    \E p \in Procs :
        /\ pc[p] = "done"
        /\ IsBooking(p)
        /\ TripExists(payload[p].trip_id)
        /\ response[p] = OnlyAvailable(0)
        /\ payload[p].seats = GeSeats

(* -------------------------------- C4 ----------------------------------- *)
\* C4: with a configured store, a book_trip call whose trip_id is malformed
\* or names no stored trip ends with 404 and inserts nothing, whatever the
\* seats and the stored bookings; no stored booking was inserted under such
\* an identifier.
C4_NotFound ==
    /\ \A p \in Procs :
        ( /\ pc[p] = "done"
          /\ IsBooking(p)
          /\ db = "configured"
          /\ ~TripExists(payload[p].trip_id) )
        => /\ response[p] = TripNotFound
           /\ ~Took(p, "booking.insert")
    /\ \A i \in 1..Len(booking) : TripExists(booking[i].trip_id)

C4_Witness ==
    \E p \in Procs :
        /\ pc[p] = "done"
        /\ IsBooking(p)
        /\ payload[p].trip_id \in {"64ff", "not-an-id"}
        /\ payload[p].seats = GeSeats
        /\ response[p] = TripNotFound
        /\ ~raised[p]
        /\ Len(booking) > 0

(* -------------------------------- C5 ----------------------------------- *)
\* C5: the availability computed for a trip, in the book_trip admission
\* check and in search_trips, equals max(0, capacity - seats of the trip's
\* bookings), a booking without seats counting as zero.
C5_AvailabilityFormula ==
    [][\A p \in Procs :
        /\ ( /\ pc[p] = "get_documents"
             /\ available'[p] >= 0 )
           => available'[p] = TripAvailability(TripNamed(payload[p].trip_id))
        /\ ( /\ pc[p] = "find_bookings"
             /\ Len(results'[p]) > Len(results[p]) )
           => Last(results'[p]).available_seats = TripAvailability(Head(trips[p]))
      ]_vars

(* -------------------------------- C6 ----------------------------------- *)
\* C6: every booking document an admitted book_trip call inserts has a
\* status field equal to "confirmed".
C6_StatusConfirmed ==
    [][Len(booking') > Len(booking)
        => /\ "status" \in DOMAIN Last(booking')
           /\ Last(booking')["status"] = "confirmed"
      ]_vars

(* -------------------------------- C7 ----------------------------------- *)
\* C7: a request one of whose store steps raised ends with the store
\* failure (500), never with 404, 400 or success.
C7_StoreFailurePropagates ==
    \A p \in Procs :
        (pc[p] = "done" /\ raised[p]) => response[p].code = 500

(* -------------------------------- C8 ----------------------------------- *)
\* C8: a search_trips call whose origin/destination pair matches no route
\* takes the routes read as its only store step and, unless that read
\* raised, returns the empty trip list.
C8_NoRouteShortCircuit ==
    \A p \in Procs :
        ( /\ pc[p] = "done"
          /\ IsSearch(p)
          /\ db = "configured"
          /\ \A i \in 1..Len(busroute) : ~RouteMatches(busroute[i], query[p]) )
        => /\ steps[p] = <<"busroute.find">>
           /\ ~raised[p] => response[p] = TripList(<<>>)

C8_Witness ==
    \E p \in Procs :
        /\ pc[p] = "done"
        /\ IsSearch(p)
        /\ query[p].origin = "Paris"
        /\ response[p] = TripList(<<>>)
        /\ steps[p] = <<"busroute.find">>

(* -------------------------------- C9 ----------------------------------- *)
\* the stored route a trip belongs to
ParentRoute(t) ==
    busroute[CHOOSE i \in 1..Len(busroute) : Str(busroute[i]["_id"]) = t.route_id]

\* the stored trips a query asks for
Wanted(q) ==
    { i \in 1..Len(trip) :
        /\ trip[i].travel_date = IsoFormat(q.travel_date)
        /\ \E j \in 1..Len(busroute) :
              /\ RouteMatches(busroute[j], q)
              /\ Str(busroute[j]["_id"]) = trip[i].route_id }

\* C9: a search_trips call that returns a list returns exactly the trips of
\* the matched routes on the requested date, each with the origin,
\* destination and duration of its own route and with available_seats; no
\* step of a search_trips call changes the store.
C9_SearchResult ==
    /\ [](\A p \in Procs :
            (pc[p] = "done" /\ IsSearch(p) /\ response[p].code = 200)
            => LET items == response[p].trips
               IN  /\ Len(items) = Cardinality(Wanted(query[p]))
                   /\ \A i \in Wanted(query[p]) :
                        \E k \in 1..Len(items) :
                          /\ {"origin", "destination", "duration_minutes",
                              "available_seats"} \subseteq DOMAIN items[k]
                          /\ items[k]["_id"] = Str(trip[i]["_id"])
                          /\ items[k].route_id = trip[i].route_id
                          /\ items[k].travel_date = trip[i].travel_date
                          /\ items[k].capacity = trip[i].capacity
                          /\ items[k].origin = ParentRoute(trip[i]).origin
                          /\ items[k].destination = ParentRoute(trip[i]).destination
                          /\ items[k].duration_minutes
                               = ParentRoute(trip[i]).duration_minutes
                          /\ items[k].available_seats \in 0..trip[i].capacity)
    /\ [][\A p \in Procs :
            (IsSearch(p)' /\ (~IsSearch(p) \/ steps'[p] # steps[p]))
            => UNCHANGED <<busroute, trip, booking>>
         ]_vars

C9_Witness ==
    \E p \in Procs :
        /\ pc[p] = "done"
        /\ IsSearch(p)
        /\ response[p].code = 200
        /\ Len(response[p].trips) = 2
        /\ response[p].trips[2].origin = "San Francisco"
        /\ Len(booking) > 0

(* -------------------------------- C10 ---------------------------------- *)
\* C10: when requests run one at a time, a step taken in a state where no
\* trip is over-booked leads to a state where no trip is over-booked.
C10_SerialInductive ==
    [][NoTripOverBooked => NoTripOverBooked']_vars
====
